---------------------------- MODULE Spec2Model ----------------------------
(***************************************************************************)
(* Model of the query-builder core of rwf/rum:                             *)
(*   rum/src/model/filter.rs  -- Comparison, JoinOp, Filter, WhereClause   *)
(*   rwf/src/model/insert.rs  -- Insert                                    *)
(* SQL text is modelled as a sequence of string tokens whose concatenation *)
(* is the rendered string; every parenthesis is a token of its own.        *)
(***************************************************************************)
EXTENDS Integers, Sequences, FiniteSets, TLC

VARIABLES
    flt,       \* a Filter held by the caller (filter.rs, struct Filter)
    where,     \* a WhereClause (filter.rs, struct WhereClause)
    last,      \* the last call made: its receiver, arguments and result
    panicked,  \* the assertion of Filter::concat has failed
    insert,    \* an Insert<T> (insert.rs, struct Insert)
    calls      \* the builder methods called on insert so far

vars == <<flt, where, last, panicked, insert, calls>>

(***************************************************************************)
(* Bounds of the model.                                                    *)
(***************************************************************************)
\* largest number of comparisons (leaves and nested sub-filters) in a filter
MaxSize == 6
\* most comparisons at one level of a filter
MaxClauses == 3
\* most predicates in a flat filter handed over as an operand
MaxOperandLen == 1
\* deepest nesting of sub-filters in a filter
MaxDepth == 2
\* longest column / value list handed to the Insert builder
MaxColumns == 2

(***************************************************************************)
(* Collaborators outside filter.rs / insert.rs: Value, Column,             *)
(* Placeholders and their renderers.                                       *)
(***************************************************************************)
Integer(n) == [tag |-> "Integer", int |-> n]

String(s) == [tag |-> "String", str |-> s]

List(items) == [tag |-> "List", items |-> items]

Record(v) == [tag |-> "Record", inner |-> v]

\* s[1] \o sep \o s[2] \o ... : Vec<String>::join(sep) on token sequences
RECURSIVE JoinTokens(_, _)
JoinTokens(parts, sep) ==
    IF parts = <<>> THEN <<>>
    ELSE IF Len(parts) = 1 THEN parts[1]
    ELSE parts[1] \o sep \o JoinTokens(Tail(parts), sep)

RECURSIVE Value_to_sql(_)
Value_to_sql(v) ==
    CASE v.tag = "Integer" -> <<ToString(v.int)>>
      [] v.tag = "String" -> <<"'" \o v.str \o "'">>
      [] v.tag = "List" ->
            <<"{">> \o JoinTokens([i \in 1..Len(v.items) |-> Value_to_sql(v.items[i])], <<", ">>)
                    \o <<"}">>
      [] v.tag = "Record" -> Value_to_sql(v.inner)

\* impl ToValue for Value
to_value(v) == v

NoTable == <<>>

Column_new(table, name) == [table |-> <<table>>, name |-> name]

Column_name(name) == [table |-> NoTable, name |-> name]

unqualify(c) == [table |-> NoTable, name |-> c.name]

Quoted(s) == "\"" \o s \o "\""

Column_to_sql(c) ==
    IF c.table = NoTable THEN <<Quoted(c.name)>>
    ELSE <<Quoted(c.table[1]), ".", Quoted(c.name)>>

(***************************************************************************)
(* filter.rs: JoinOp                                                       *)
(***************************************************************************)
JoinOp == {"And", "Or"}

JoinOp_default == "And"

JoinOp_to_sql(op) == IF op = "And" THEN "AND" ELSE "OR"

(***************************************************************************)
(* filter.rs: Comparison and Filter                                        *)
(***************************************************************************)
Equal(column, value) == [kind |-> "Equal", column |-> column, value |-> value]

In(column, value) == [kind |-> "In", column |-> column, value |-> value]

NotIn(column, value) == [kind |-> "NotIn", column |-> column, value |-> value]

NotEqual(column, value) == [kind |-> "NotEqual", column |-> column, value |-> value]

SubFilter(filter) == [kind |-> "Filter", filter |-> filter]

Filter(clauses, op) == [clauses |-> clauses, op |-> op]

Filter_default == Filter(<<>>, JoinOp_default)

is_empty(self) == self.clauses = <<>>

RECURSIVE Filter_to_sql(_)
RECURSIVE Comparison_to_sql(_)
Comparison_to_sql(c) ==
    CASE c.kind = "Equal" -> Column_to_sql(c.column) \o <<" = ">> \o Value_to_sql(c.value)
      [] c.kind = "In" ->
            Column_to_sql(c.column) \o <<" = ANY", "(">> \o Value_to_sql(c.value) \o <<")">>
      [] c.kind = "NotIn" ->
            Column_to_sql(c.column) \o <<" <> ANY", "(">> \o Value_to_sql(c.value) \o <<")">>
      [] c.kind = "NotEqual" -> Column_to_sql(c.column) \o <<" <> ">> \o Value_to_sql(c.value)
      [] c.kind = "Filter" -> <<"(">> \o Filter_to_sql(c.filter) \o <<")">>

\* rendering that joins every level with AND
Filter_to_sql_and_only(self) ==
    JoinTokens([i \in 1..Len(self.clauses) |-> Comparison_to_sql(self.clauses[i])],
               <<" ", "AND", " ">>)

Filter_to_sql(self) ==
    JoinTokens([i \in 1..Len(self.clauses) |-> Comparison_to_sql(self.clauses[i])],
               <<" ", JoinOp_to_sql(self.op), " ">>)

Filter_add(self, column, value) ==
    LET v == to_value(value)
    IN  IF v.tag = "Record"
        THEN Filter(Append(self.clauses, In(column, v.inner)), self.op)
        ELSE Filter(Append(self.clauses, Equal(column, v)), self.op)

Filter_add_not(self, column, value) ==
    LET v == to_value(value)
    IN  IF v.tag = "Record"
        THEN Filter(Append(self.clauses, NotIn(column, v.inner)), self.op)
        ELSE Filter(Append(self.clauses, NotEqual(column, v)), self.op)

\* concat without the assertion
concat_assert_off(self, filter) == TRUE

\* assert_eq!(self.op, filter.op)
concat_assert(self, filter) == self.op = filter.op

\* concat that nests the operands the way join does
Filter_concat_wraps(self, filter) == Filter(<<SubFilter(self), SubFilter(filter)>>, self.op)

Filter_concat(self, filter) == Filter(self.clauses \o filter.clauses, self.op)

\* join without the is_empty shortcut
join_always_wraps(self, op, filter) == Filter(<<SubFilter(self), SubFilter(filter)>>, op)

\* join that appends the clauses instead of nesting the operands
join_flattens(self, op, filter) ==
    IF is_empty(self) THEN filter ELSE Filter(self.clauses \o filter.clauses, op)

join(self, op, filter) ==
    IF is_empty(self) THEN filter
    ELSE Filter(<<SubFilter(self), SubFilter(filter)>>, op)

Filter_or(self, filter) == join(self, "Or", filter)

Filter_and(self, filter) == join(self, "And", filter)

(***************************************************************************)
(* filter.rs: WhereClause                                                  *)
(***************************************************************************)
WhereClause_default == [filter |-> Filter_default]

WhereClause_or(self, filter) == [filter |-> Filter_or(self.filter, filter)]

WhereClause_and(self, filter) == [filter |-> Filter_and(self.filter, filter)]

WhereClause_add(self, column, value) == [filter |-> Filter_add(self.filter, column, value)]

WhereClause_concat(self, filter) == [filter |-> Filter_concat(self.filter, filter)]

\* clear that starts over from the default clause
WhereClause_clear_resets(self) == [filter |-> Filter_default]

WhereClause_clear(self) == [filter |-> Filter(<<>>, self.filter.op)]

WhereClause_filter(self) == self.filter

\* rendering that emits the keyword whatever the filter holds
WhereClause_to_sql_always(self) == <<" WHERE ">> \o Filter_to_sql(self.filter)

WhereClause_to_sql(self) ==
    IF is_empty(self.filter) THEN <<>>
    ELSE <<" WHERE ">> \o Filter_to_sql(self.filter)

(***************************************************************************)
(* insert.rs: Insert<T>, for a model type T with table T::table_name().    *)
(***************************************************************************)
table_name == "users"

escape(s) == s

Placeholders_new == <<>>

Placeholders_add(self, value) == Append(self, value)

\* for value in values { placeholders.add(&value) }
RECURSIVE AddAll(_, _)
AddAll(placeholders, values) ==
    IF values = <<>> THEN placeholders
    ELSE AddAll(Placeholders_add(placeholders, to_value(Head(values))), Tail(values))

Insert_new(model) ==
    [table_name |-> table_name,
     columns |-> [i \in 1..Len(model.column_names) |-> Column_name(model.column_names[i])],
     placeholders |-> AddAll(Placeholders_new, model.values),
     no_conflict |-> FALSE,
     unique_by |-> <<>>]

Insert_from_columns(columns, values) ==
    [table_name |-> table_name,
     columns |-> [i \in 1..Len(columns) |-> unqualify(columns[i])],
     placeholders |-> AddAll(Placeholders_new, values),
     no_conflict |-> FALSE,
     unique_by |-> <<>>]

Insert_no_conflict(self) == [self EXCEPT !.no_conflict = TRUE]

Insert_unique_by(self, columns) == [self EXCEPT !.unique_by = columns]

\* the ON CONFLICT fragment of the statement
on_conflict_upsert(self) ==
    LET columns == [i \in 1..Len(self.unique_by) |-> unqualify(self.unique_by[i])]
        on_conflict == JoinTokens([i \in 1..Len(columns) |-> Column_to_sql(columns[i])], <<", ">>)
        update == JoinTokens([i \in 1..Len(columns) |->
                                Column_to_sql(columns[i]) \o <<" = EXCLUDED.">>
                                                          \o Column_to_sql(columns[i])],
                             <<", ">>)
    IN  <<"ON CONFLICT ", "(">> \o on_conflict \o <<")", " ", "DO UPDATE", " SET ">>
                                \o update \o <<" ">>

\* conflict clause that looks at unique_by before no_conflict
conflict_clause_unique_first(self) ==
    IF self.unique_by # <<>> THEN on_conflict_upsert(self)
    ELSE IF self.no_conflict THEN <<"ON CONFLICT ", "DO NOTHING", " ">>
    ELSE <<>>

conflict_clause(self) ==
    IF self.no_conflict THEN <<"ON CONFLICT ", "DO NOTHING", " ">>
    ELSE IF self.unique_by # <<>> THEN on_conflict_upsert(self)
    ELSE <<>>

Insert_to_sql(self) ==
    LET columns == JoinTokens([i \in 1..Len(self.columns) |-> Column_to_sql(self.columns[i])],
                              <<", ">>)
        placeholders == JoinTokens([i \in 1..Len(self.columns) |-> <<"$" \o ToString(i)>>],
                                   <<", ">>)
    IN  <<"INSERT INTO ", Quoted(escape(self.table_name)), " ", "(">> \o columns
            \o <<")", " VALUES ", "(">> \o placeholders \o <<")", " ">>
            \o conflict_clause(self) \o <<"RETURNING *">>

(***************************************************************************)
(* Measures used to bound the model.                                       *)
(***************************************************************************)
RECURSIVE SumSeq(_)
SumSeq(s) == IF s = <<>> THEN 0 ELSE Head(s) + SumSeq(Tail(s))

RECURSIVE MaxOfSeq(_)
MaxOfSeq(s) ==
    IF s = <<>> THEN 0
    ELSE LET m == MaxOfSeq(Tail(s)) IN IF Head(s) > m THEN Head(s) ELSE m

RECURSIVE Size(_)
Size(f) ==
    SumSeq([i \in 1..Len(f.clauses) |->
              IF f.clauses[i].kind = "Filter" THEN 1 + Size(f.clauses[i].filter) ELSE 1])

RECURSIVE Depth(_)
Depth(f) ==
    MaxOfSeq([i \in 1..Len(f.clauses) |->
                IF f.clauses[i].kind = "Filter" THEN 1 + Depth(f.clauses[i].filter) ELSE 0])

RECURSIVE Width(_)
Width(f) ==
    LET w == MaxOfSeq([i \in 1..Len(f.clauses) |->
                         IF f.clauses[i].kind = "Filter" THEN Width(f.clauses[i].filter) ELSE 0])
    IN  IF Len(f.clauses) > w THEN Len(f.clauses) ELSE w

Bounded(f) == Size(f) <= MaxSize /\ Depth(f) <= MaxDepth /\ Width(f) <= MaxClauses

(***************************************************************************)
(* Inputs.                                                                 *)
(***************************************************************************)
FilterColumns == {Column_new("t", "x")}

\* values handed to add and to add_not while exercising the merge algebra
AddValues == {Record(List(<<Integer(1), Integer(2)>>))}

AddNotValues == {Integer(1)}

\* every kind of value handed to add / add_not
FilterValues ==
    {Integer(1), String("v"), List(<<Integer(1), Integer(2)>>),
     Record(List(<<Integer(1), Integer(2)>>)), Record(Integer(1))}

\* values handed to WhereClause::add
WhereValues == {Integer(1)}

\* sequences over S of length at most n
RECURSIVE SeqsUpTo(_, _)
SeqsUpTo(S, n) ==
    IF n = 0 THEN {<<>>}
    ELSE LET R == SeqsUpTo(S, n - 1) IN R \cup {Append(r, x) : r \in R, x \in S}

InsertColumns == {Column_new("users", "id"), Column_name("email")}

InsertValues == {Integer(1), String("v")}

\* typed records: T::column_names() and model.values(), one value per column
Models ==
    {m \in [column_names : SeqsUpTo({"id", "email"}, MaxColumns),
            values : SeqsUpTo(InsertValues, MaxColumns)] :
        Len(m.values) = Len(m.column_names)}

\* flat filters of either operator with at most n predicates, added by add
\* with a value of A or by add_not with a value of N
RECURSIVE FlatFilters(_, _, _)
FlatFilters(n, A, N) ==
    IF n = 0 THEN {Filter(<<>>, op) : op \in JoinOp}
    ELSE LET S == FlatFilters(n - 1, A, N)
         IN  S \cup {Filter_add(f, c, v) : f \in S, c \in FilterColumns, v \in A}
               \cup {Filter_add_not(f, c, v) : f \in S, c \in FilterColumns, v \in N}

\* filters with nested sub-filters: merges of two one-predicate filters
NestedFilters ==
    LET One == {Filter_add(Filter(<<>>, op), c, Integer(1)) : op \in JoinOp, c \in FilterColumns}
    IN  {join(f, op, g) : f \in One, g \in One, op \in JoinOp}

\* the filters passed as the argument of and / or / concat
Operands == FlatFilters(MaxOperandLen, AddValues, AddNotValues) \cup NestedFilters

\* the filters passed as the argument of WhereClause::or / and / concat
WhereOperands == FlatFilters(MaxOperandLen, AddValues, {}) \cup NestedFilters

(***************************************************************************)
(* The Filter algebra: a filter (flt) held by a caller, built from         *)
(* Filter::default() with add, add_not, and, or and concat.                *)
(***************************************************************************)
Init ==
    /\ flt = Filter_default
    /\ where = WhereClause_default
    /\ last = [op |-> "init"]
    /\ panicked = FALSE
    /\ insert = Insert_from_columns(<<>>, <<>>)
    /\ calls = {}

\* flt = Filter::default()
New ==
    /\ ~panicked
    /\ flt' = Filter_default
    /\ last' = [op |-> "default", result |-> Filter_default]
    /\ UNCHANGED <<where, panicked, insert, calls>>

\* flt.add(column, value)
Add(column, value) ==
    /\ ~panicked
    /\ Bounded(Filter_add(flt, column, value))
    /\ flt' = Filter_add(flt, column, value)
    /\ last' = [op |-> "add", self |-> flt, column |-> column, value |-> value,
                result |-> Filter_add(flt, column, value)]
    /\ UNCHANGED <<where, panicked, insert, calls>>

\* flt.add_not(column, value)
AddNot(column, value) ==
    /\ ~panicked
    /\ Bounded(Filter_add_not(flt, column, value))
    /\ flt' = Filter_add_not(flt, column, value)
    /\ last' = [op |-> "add_not", self |-> flt, column |-> column, value |-> value,
                result |-> Filter_add_not(flt, column, value)]
    /\ UNCHANGED <<where, panicked, insert, calls>>

\* flt = flt.and(other)
And(other) ==
    /\ ~panicked
    /\ Bounded(Filter_and(flt, other))
    /\ flt' = Filter_and(flt, other)
    /\ last' = [op |-> "and", self |-> flt, other |-> other,
                result |-> Filter_and(flt, other)]
    /\ UNCHANGED <<where, panicked, insert, calls>>

\* flt = flt.or(other)
Or(other) ==
    /\ ~panicked
    /\ Bounded(Filter_or(flt, other))
    /\ flt' = Filter_or(flt, other)
    /\ last' = [op |-> "or", self |-> flt, other |-> other,
                result |-> Filter_or(flt, other)]
    /\ UNCHANGED <<where, panicked, insert, calls>>

\* flt = flt.concat(other); a failed assertion unwinds before the assignment
Concat(other) ==
    /\ ~panicked
    /\ IF concat_assert(flt, other)
       THEN /\ Bounded(Filter_concat(flt, other))
            /\ flt' = Filter_concat(flt, other)
            /\ last' = [op |-> "concat", self |-> flt, other |-> other, returned |-> TRUE,
                        result |-> Filter_concat(flt, other)]
            /\ UNCHANGED panicked
       ELSE /\ panicked' = TRUE
            /\ last' = [op |-> "concat", self |-> flt, other |-> other, returned |-> FALSE]
            /\ UNCHANGED flt
    /\ UNCHANGED <<where, insert, calls>>

Next ==
    \/ New
    \/ \E column \in FilterColumns, value \in AddValues : Add(column, value)
    \/ \E column \in FilterColumns, value \in AddNotValues : AddNot(column, value)
    \/ \E other \in Operands \cup {flt} : And(other)
    \/ \E other \in Operands \cup {flt} : Or(other)
    \/ \E other \in Operands \cup {flt} : Concat(other)

Spec == Init /\ [][Next]_vars

(***************************************************************************)
(* The filters reachable from Filter::default() by add, add_not, and, or   *)
(* and concat alone: every argument is itself built that way.              *)
(***************************************************************************)
\* flat filters built from Filter::default() by add / add_not
ReachOperands ==
    {f \in FlatFilters(MaxOperandLen, AddValues, AddNotValues) : f.op = JoinOp_default}

NextReach ==
    \/ \E column \in FilterColumns, value \in AddValues : Add(column, value)
    \/ \E column \in FilterColumns, value \in AddNotValues : AddNot(column, value)
    \/ \E other \in ReachOperands \cup {flt} : And(other)
    \/ \E other \in ReachOperands \cup {flt} : Or(other)
    \/ \E other \in ReachOperands \cup {flt} : Concat(other)

SpecReach == Init /\ [][NextReach]_vars


(***************************************************************************)
(* Classification of the values handed to add / add_not.                   *)
(***************************************************************************)
NextClassify ==
    \/ New
    \/ \E column \in FilterColumns, value \in FilterValues : Add(column, value)
    \/ \E column \in FilterColumns, value \in FilterValues : AddNot(column, value)

SpecClassify == Init /\ [][NextClassify]_vars

(***************************************************************************)
(* The WhereClause of a query: or, and, add, concat and clear, with        *)
(* filters handed over by the caller or cloned from the clause (filter()). *)
(***************************************************************************)
\* where.or(filter)
WhereOr(filter) ==
    /\ ~panicked
    /\ Bounded(WhereClause_or(where, filter).filter)
    /\ where' = WhereClause_or(where, filter)
    /\ last' = [op |-> "or", self |-> where.filter, other |-> filter,
                result |-> WhereClause_or(where, filter).filter]
    /\ UNCHANGED <<flt, panicked, insert, calls>>

\* where.and(filter)
WhereAnd(filter) ==
    /\ ~panicked
    /\ Bounded(WhereClause_and(where, filter).filter)
    /\ where' = WhereClause_and(where, filter)
    /\ last' = [op |-> "and", self |-> where.filter, other |-> filter,
                result |-> WhereClause_and(where, filter).filter]
    /\ UNCHANGED <<flt, panicked, insert, calls>>

\* where.add(column, value)
WhereAdd(column, value) ==
    /\ ~panicked
    /\ Bounded(WhereClause_add(where, column, value).filter)
    /\ where' = WhereClause_add(where, column, value)
    /\ last' = [op |-> "add", self |-> where.filter, column |-> column, value |-> value,
                result |-> WhereClause_add(where, column, value).filter]
    /\ UNCHANGED <<flt, panicked, insert, calls>>

\* where.concat(filter); a failed assertion unwinds before the assignment
WhereConcat(filter) ==
    /\ ~panicked
    /\ IF concat_assert(where.filter, filter)
       THEN /\ Bounded(WhereClause_concat(where, filter).filter)
            /\ where' = WhereClause_concat(where, filter)
            /\ last' = [op |-> "concat", self |-> where.filter, other |-> filter,
                        returned |-> TRUE, result |-> WhereClause_concat(where, filter).filter]
            /\ UNCHANGED panicked
       ELSE /\ panicked' = TRUE
            /\ last' = [op |-> "concat", self |-> where.filter, other |-> filter,
                        returned |-> FALSE]
            /\ UNCHANGED where
    /\ UNCHANGED <<flt, insert, calls>>

\* where.clear()
WhereClear ==
    /\ ~panicked
    /\ where' = WhereClause_clear(where)
    /\ last' = [op |-> "clear", self |-> where.filter,
                result |-> WhereClause_clear(where).filter]
    /\ UNCHANGED <<flt, panicked, insert, calls>>

NextWhere ==
    \/ \E filter \in WhereOperands \cup {WhereClause_filter(where)} : WhereOr(filter)
    \/ \E filter \in WhereOperands \cup {WhereClause_filter(where)} : WhereAnd(filter)
    \/ \E column \in FilterColumns, value \in WhereValues : WhereAdd(column, value)
    \/ \E filter \in WhereOperands \cup {WhereClause_filter(where)} : WhereConcat(filter)
    \/ WhereClear

SpecWhere == Init /\ [][NextWhere]_vars

(***************************************************************************)
(* The Insert builder: an Insert built by Insert::new or                   *)
(* Insert::from_columns, then no_conflict / unique_by in any order; calls  *)
(* records which builder methods have been called on it.                   *)
(***************************************************************************)
InitInsert ==
    /\ flt = Filter_default
    /\ where = WhereClause_default
    /\ panicked = FALSE
    /\ calls = {}
    /\ \/ \E model \in Models :
             /\ insert = Insert_new(model)
             /\ last = [op |-> "new", model |-> model]
       \/ \E columns \in SeqsUpTo(InsertColumns, MaxColumns),
             values \in SeqsUpTo(InsertValues, MaxColumns) :
             /\ insert = Insert_from_columns(columns, values)
             /\ last = [op |-> "from_columns", columns |-> columns, values |-> values]

\* insert = insert.no_conflict()
NoConflict ==
    /\ insert' = Insert_no_conflict(insert)
    /\ calls' = calls \cup {"no_conflict"}
    /\ UNCHANGED <<flt, where, last, panicked>>

\* insert = insert.unique_by(columns)
UniqueBy(columns) ==
    /\ insert' = Insert_unique_by(insert, columns)
    /\ calls' = calls \cup {IF columns = <<>> THEN "unique_by_none" ELSE "unique_by"}
    /\ UNCHANGED <<flt, where, last, panicked>>

NextInsert ==
    \/ NoConflict
    \/ \E columns \in SeqsUpTo(InsertColumns, MaxColumns) : UniqueBy(columns)

SpecInsert == InitInsert /\ [][NextInsert]_vars

(***************************************************************************)
(* Helpers of the properties: reading a rendering back.                    *)
(***************************************************************************)
\* number of tokens of t equal to tok
RECURSIVE Count(_, _)
Count(t, tok) ==
    IF t = <<>> THEN 0 ELSE (IF Head(t) = tok THEN 1 ELSE 0) + Count(Tail(t), tok)

Contains(t, tok) == \E i \in 1..Len(t) : t[i] = tok

\* Split t at the operators standing outside every parenthesis: scanning from
\* token i at nesting depth d, with the piece read so far.
RECURSIVE SplitFrom(_, _, _, _, _)
SplitFrom(t, i, d, piece, acc) ==
    IF i > Len(t) THEN [pieces |-> Append(acc.pieces, piece), ops |-> acc.ops]
    ELSE IF d = 0 /\ t[i] = " " /\ i + 2 <= Len(t) /\ t[i + 1] \in {"AND", "OR"} /\ t[i + 2] = " "
         THEN SplitFrom(t, i + 3, 0, <<>>,
                        [pieces |-> Append(acc.pieces, piece), ops |-> Append(acc.ops, t[i + 1])])
    ELSE SplitFrom(t, i + 1,
                   IF t[i] = "(" THEN d + 1 ELSE IF t[i] = ")" THEN d - 1 ELSE d,
                   Append(piece, t[i]), acc)

TopLevel(t) == SplitFrom(t, 1, 0, <<>>, [pieces |-> <<>>, ops |-> <<>>])

\* the rendering of f reads back as f's clauses, in order, joined by f's operator
RECURSIVE RendersAsTree(_)
RendersAsTree(f) ==
    LET sql == Filter_to_sql(f)
        top == TopLevel(sql)
    IN  IF f.clauses = <<>> THEN sql = <<>>
        ELSE /\ Len(top.pieces) = Len(f.clauses)
             /\ \A i \in 1..Len(top.ops) : top.ops[i] = (IF f.op = "And" THEN "AND" ELSE "OR")
             /\ \A i \in 1..Len(f.clauses) :
                   LET c == f.clauses[i]
                   IN  IF c.kind = "Filter"
                       THEN /\ top.pieces[i] = <<"(">> \o Filter_to_sql(c.filter) \o <<")">>
                            /\ RendersAsTree(c.filter)
                       ELSE top.pieces[i] = Comparison_to_sql(c)

OpToken(op) == IF op = "and" THEN "AND" ELSE "OR"

OpJoin(op) == IF op = "and" THEN "And" ELSE "Or"

(***************************************************************************)
(* Properties of the Filter algebra (specification Spec).                  *)
(***************************************************************************)
\* C1: merging into the empty filter returns the other filter itself: after
\* Filter::default().and(f) or .or(f) the result is f, with f's clauses and f's
\* operator, not wrapped, so it renders as f renders.
C1_EmptyIsLeftIdentity ==
    (last.op \in {"and", "or"} /\ last.self = Filter_default) =>
        /\ last.result = last.other
        /\ flt = last.other
        /\ Filter_to_sql(last.result) = Filter_to_sql(last.other)

C1_Witness ==
    /\ last.op = "or"
    /\ last.self = Filter_default
    /\ last.other.op = "And"
    /\ Depth(last.other) >= 1
    /\ flt = last.other

\* C2: merging a non-empty filter a with any filter b gives exactly the two
\* nested sub-filters a and b, in that order, joined by the requested
\* operator whatever the operators of a and b; it renders as
\* (a) AND (b), resp. (a) OR (b).
C2_CrossMergeWraps ==
    (last.op \in {"and", "or"} /\ ~is_empty(last.self)) =>
        /\ Len(last.result.clauses) = 2
        /\ last.result.clauses[1] = [kind |-> "Filter", filter |-> last.self]
        /\ last.result.clauses[2] = [kind |-> "Filter", filter |-> last.other]
        /\ last.result.op = OpJoin(last.op)
        /\ Filter_to_sql(last.result) =
              <<"(">> \o Filter_to_sql(last.self) \o <<")", " ", OpToken(last.op), " ", "(">>
                      \o Filter_to_sql(last.other) \o <<")">>
        /\ flt = last.result

C2_Witness ==
    /\ last.op = "and"
    /\ last.self.op = "Or"
    /\ Len(last.self.clauses) >= 2
    /\ last.other.op = "Or"
    /\ ~is_empty(last.other)
    /\ last.result.op = "And"

\* C4: concat of two filters of the same operator keeps that operator and
\* has a's clauses followed by b's clauses; it adds no nesting, so the
\* rendering has no parenthesis beyond those of a's and b's own renderings.
C4_ConcatFlattens ==
    (last.op = "concat" /\ last.returned) =>
        /\ last.result.clauses = last.self.clauses \o last.other.clauses
        /\ last.result.op = last.self.op
        /\ Depth(last.result) =
              (IF Depth(last.self) > Depth(last.other) THEN Depth(last.self) ELSE Depth(last.other))
        /\ Count(Filter_to_sql(last.result), "(") =
              Count(Filter_to_sql(last.self), "(") + Count(Filter_to_sql(last.other), "(")
        /\ flt = last.result

C4_Witness ==
    /\ last.op = "concat"
    /\ last.returned
    /\ last.self.op = "Or"
    /\ Depth(last.self) >= 1
    /\ ~is_empty(last.other)
    /\ Len(flt.clauses) = 3

\* C6: the rendering of every filter, at every nesting depth, is the
\* renderings of its clauses in order, separated by its own operator only,
\* each nested sub-filter in one pair of parentheses; the empty filter
\* renders to the empty string.
C6_RenderingMatchesTree == RendersAsTree(flt)

C6_Witness ==
    /\ Depth(flt) = 2
    /\ Len(flt.clauses) = 2
    /\ flt.op = "Or"
    /\ flt.clauses[1].filter.op = "And"
    /\ Contains(Filter_to_sql(flt), " = ANY")


(***************************************************************************)
(* Properties of WhereClause (specification SpecWhere).                    *)
(***************************************************************************)
\* C3: concat of two filters of different operators, empty or not, fails
\* its assertion: nothing is returned and the clause keeps its filter; a
\* concat that returns had operands of one operator, which is the operator
\* of the result.
C3_ConcatRequiresSameOperator ==
    /\ (last.op = "concat" /\ last.self.op # last.other.op) =>
          (~last.returned /\ panicked /\ where.filter = last.self)
    /\ (last.op = "concat" /\ last.returned) =>
          (last.self.op = last.other.op /\ last.result.op = last.other.op /\ ~panicked)
    /\ panicked => (last.op = "concat" /\ ~last.returned)

C3_Witness ==
    /\ last.op = "concat"
    /\ ~last.returned
    /\ panicked
    /\ is_empty(last.self)
    /\ last.self.op = "Or"
    /\ ~is_empty(last.other)

\* C9: the clause renders to the empty string exactly when its filter has
\* no clauses, and otherwise to " WHERE " followed by the filter's
\* rendering; the keyword is that prefix only, never part of a filter.
C9_WhereRendering ==
    LET sql == WhereClause_to_sql(where)
    IN  /\ (sql = <<>>) <=> (Len(where.filter.clauses) = 0)
        /\ (Len(where.filter.clauses) > 0) =>
              /\ Head(sql) = " WHERE "
              /\ Tail(sql) = Filter_to_sql(where.filter)
              /\ Count(sql, " WHERE ") = 1
        /\ ~Contains(Filter_to_sql(where.filter), " WHERE ")

C9_Witness ==
    /\ last.op \in {"and", "or"}
    /\ Depth(where.filter) >= 1
    /\ Head(WhereClause_to_sql(where)) = " WHERE "
    /\ Len(WhereClause_to_sql(where)) > 1

\* C10: add on a non-empty clause joins the new predicate to the predicates
\* accumulated so far by AND.
C10_AddJoinsWithAnd ==
    (last.op = "add" /\ ~is_empty(last.self)) =>
        LET top == TopLevel(Tail(WhereClause_to_sql(where)))
        IN  /\ Len(top.ops) >= 1
            /\ top.ops[Len(top.ops)] = "AND"
            /\ top.pieces[Len(top.pieces)] =
                  Column_to_sql(last.column) \o <<" = ">> \o Value_to_sql(last.value)

(***************************************************************************)
(* Properties of add / add_not (specification SpecClassify).               *)
(***************************************************************************)
\* C5: add (resp. add_not) of a List or Record value appends In (resp.
\* NotIn), rendered <col> = ANY(<val>) (resp. <col> <> ANY(<val>)); of any
\* other value it appends Equal (resp. NotEqual), rendered <col> = <val>
\* (resp. <col> <> <val>).
C5_MembershipClassification ==
    (last.op \in {"add", "add_not"}) =>
        LET c == last.result.clauses[Len(last.result.clauses)]
            set == last.value.tag \in {"List", "Record"}
            sign == IF last.op = "add" THEN "=" ELSE "<>"
        IN  /\ c.kind = (IF last.op = "add" THEN (IF set THEN "In" ELSE "Equal")
                                            ELSE (IF set THEN "NotIn" ELSE "NotEqual"))
            /\ Comparison_to_sql(c) =
                  (IF set
                   THEN Column_to_sql(last.column) \o <<" " \o sign \o " ANY", "(">>
                            \o Value_to_sql(last.value) \o <<")">>
                   ELSE Column_to_sql(last.column) \o <<" " \o sign \o " ">>
                            \o Value_to_sql(last.value))

(***************************************************************************)
(* Properties of Insert (specification SpecInsert).                        *)
(***************************************************************************)
IsMarker(tok) == \E i \in 1..(MaxColumns + 1) : tok = "$" \o ToString(i)

\* C7: an Insert binds as many placeholder values as it has columns, N, and
\* its statement has exactly the markers $1..$N in ascending order.
C7_ColumnPlaceholderAlignment ==
    LET N == Len(insert.columns)
    IN  /\ Len(insert.placeholders) = N
        /\ SelectSeq(Insert_to_sql(insert), IsMarker) = [i \in 1..N |-> "$" \o ToString(i)]

\* C8 as stated: once no_conflict() has been called the statement never
\* contains DO UPDATE, and once unique_by(cols) with non-empty cols has
\* been called it never contains DO NOTHING.
C8_ConflictVariantsDistinct ==
    /\ ("no_conflict" \in calls) => ~Contains(Insert_to_sql(insert), "DO UPDATE")
    /\ ("unique_by" \in calls) => ~Contains(Insert_to_sql(insert), "DO NOTHING")

\* C8 amended: once no_conflict() has been called the statement never
\* contains DO UPDATE; once unique_by(cols) with non-empty cols has been
\* called, and no_conflict() has not, it never contains DO NOTHING.
C8_ConflictVariantsAmended ==
    /\ ("no_conflict" \in calls) => ~Contains(Insert_to_sql(insert), "DO UPDATE")
    /\ ("unique_by" \in calls /\ "no_conflict" \notin calls) =>
          ~Contains(Insert_to_sql(insert), "DO NOTHING")

C8_Witness ==
    /\ "unique_by" \in calls
    /\ "no_conflict" \notin calls
    /\ Len(insert.unique_by) = 2
    /\ Contains(Insert_to_sql(insert), "DO UPDATE")

(***************************************************************************)
(* Further properties of WhereClause (specification SpecWhere).            *)
(***************************************************************************)
\* C11: clear() removes every predicate and leaves the join operator as it
\* was: afterwards the clause list is empty, the clause renders to the
\* empty string and the filter's operator is the one before the call.
C11_ClearKeepsOperator ==
    (last.op = "clear") =>
        /\ where.filter.clauses = <<>>
        /\ WhereClause_to_sql(where) = <<>>
        /\ where.filter.op = last.self.op

C11_Witness ==
    /\ last.op = "clear"
    /\ last.self.op = "Or"
    /\ ~is_empty(last.self)
    /\ where.filter.op = "Or"
    /\ is_empty(where.filter)

(***************************************************************************)
(* Further properties of the Filter algebra (specification SpecReach).     *)
(***************************************************************************)
\* some sub-filter nested in f, at any depth, has no clauses
RECURSIVE HasEmptyGroup(_)
HasEmptyGroup(f) ==
    \E i \in 1..Len(f.clauses) :
        /\ f.clauses[i].kind = "Filter"
        /\ \/ f.clauses[i].filter.clauses = <<>>
           \/ HasEmptyGroup(f.clauses[i].filter)

\* the text t has an opening parenthesis directly followed by a closing one
HasEmptyParens(t) == \E i \in 1..(Len(t) - 1) : t[i] = "(" /\ t[i + 1] = ")"

\* C12: no filter built from Filter::default() by add, add_not, and, or and
\* concat has a nested sub-filter without clauses, so its rendering never
\* contains an empty parenthesised group "()".
C12_NoVacuousGroup ==
    /\ ~HasEmptyGroup(flt)
    /\ ~HasEmptyParens(Filter_to_sql(flt))

=============================================================================
